---- MODULE Spec2Model ----
(***************************************************************************)
(* A model of tngame: the telnet snow scene (src/tngame/telnet.py) and the *)
(* subprocess relay (src/relay.py).                                        *)
(*                                                                         *)
(* Four specifications share this module:                                  *)
(*   Spec      - one telnet session of telnet.py's shell()                 *)
(*   DiffSpec  - draw_buf_jit applied to arbitrary painted frames, with a  *)
(*               terminal that interprets what it emits                    *)
(*   RelaySpec - one telnet session of relay.py's shell()                  *)
(*   SnowSpec  - update_snow applied to the particles create_snow makes    *)
(* Characters are their code points; a string is a sequence of them.       *)
(***************************************************************************)
EXTENDS Integers, Sequences, FiniteSets, TLC

VARIABLES
    \* ---- telnet.py shell(): the closure's nonlocal state
    width, height,      \* terminal size from get_size()
    x, y,               \* the cat's position
    snow,               \* sequence of SnowParticle records
    buf, last_buf,      \* the two bitmap buffers, [<<x, y>> -> <<r, g, b, char>>]
    \* ---- telnet.py shell(): control state
    main_pc,            \* shell(): "handshake", "running", "failed"
    inp_pc,             \* listen_input task
    upd_pc,             \* listen_update task
    closed,             \* writer.close() was called
    eof,                \* the reader has seen EOF from the peer
    sent,               \* what the latest step did to the writer, in order
    last_inp,           \* the text the latest reader.read() returned
    ticks,              \* number of update() calls so far
    late,               \* number of writer.write calls made after writer.close()
    \* ---- DiffSpec
    term,               \* the terminal: [cells, pen, cx, cy]
    out,                \* the latest draw_buf_jit output
    renders,            \* draw_buf_jit calls so far
    paints,             \* paint calls since the latest draw_buf_jit call
    pre_paints,         \* paint calls that preceded the latest draw_buf_jit call
    pre_synced,         \* before the latest call, last_buf was what the terminal showed
    frame,              \* the frame the latest draw_buf_jit call was given
    \* ---- relay.py shell()
    rl,                 \* the relay session, a record (see RelayInit)
    \* ---- SnowSpec
    snow_call           \* the latest update_snow(dt) call: [dt, ok, n]

scene_vars == <<width, height, x, y, snow, buf, last_buf>>
ctl_vars   == <<main_pc, inp_pc, upd_pc, closed, eof, sent, last_inp, ticks, late>>
diff_vars  == <<term, out, renders, paints, pre_paints, pre_synced, frame>>
vars       == <<scene_vars, ctl_vars, diff_vars, rl, snow_call>>

----------------------------------------------------------------------------
(* Small helpers *)

Max(a, b) == IF a >= b THEN a ELSE b
Min(a, b) == IF a <= b THEN a ELSE b

\* Python's floor division by a positive divisor
FloorDiv(a, b) == IF a >= 0 THEN a \div b ELSE -((-a + b - 1) \div b)

----------------------------------------------------------------------------
(* Cells and buffers: np.zeros((width, height, 4), dtype=np.ubyte) *)

Cells(w, h) == (0 .. w - 1) \X (0 .. h - 1)

ZeroCell == <<0, 0, 0, 0>>

init_buffers(w, h) == [c \in Cells(w, h) |-> ZeroCell]

CellColor(cell) == <<cell[1], cell[2], cell[3]>>
CellChar(cell)  == cell[4]

\* Escape sequences and glyphs, as the terminal tokenises them
CUP(row, col) == [op |-> "CUP", a |-> row, b |-> col, c |-> 0]    \* ESC[{row};{col}H
SGR(color)    == [op |-> "SGR", a |-> color[1], b |-> color[2], c |-> color[3]]
                                                                  \* ESC[38;2;r;g;bm
CH(char)      == [op |-> "CH", a |-> char, b |-> 0, c |-> 0]      \* one glyph
SGR0          == [op |-> "SGR0", a |-> 0, b |-> 0, c |-> 0]       \* ESC[0m

\* The body of draw_buf_jit's loops for cell number k (x outer, y inner), on
\* the loop state st = [last_color, char_buf].
DrawCell(st, k, h, lastb, b) ==
    LET px    == k \div h
        py    == k % h
        color == CellColor(b[<<px, py>>])
        raw   == CellChar(b[<<px, py>>])
        char  == IF raw = 0 THEN 32 ELSE raw
    IN  IF color # st.last_color /\ color # CellColor(lastb[<<px, py>>])
        THEN [last_color |-> color,
              char_buf   |-> st.char_buf
                                 \o <<CUP(py + 1, px + 1), SGR(color), CH(char)>>]
        ELSE IF char # CellChar(lastb[<<px, py>>])
        THEN [st EXCEPT !.char_buf = @ \o <<CUP(py + 1, px + 1), CH(char)>>]
        ELSE st

\* The loops over cells lo .. hi in order. The range is split in halves and
\* the first half's result is computed (the test on it is always true) before
\* the second half starts, which keeps the evaluation shallow.
RECURSIVE DrawScan(_, _, _, _, _, _)
DrawScan(st, lo, hi, h, lastb, b) ==
    IF lo > hi THEN st
    ELSE IF lo = hi THEN DrawCell(st, lo, h, lastb, b)
    ELSE LET mid  == (lo + hi) \div 2
             left == DrawScan(st, lo, mid, h, lastb, b)
         IN  IF Len(left.char_buf) >= 0
             THEN DrawScan(left, mid + 1, hi, h, lastb, b)
             ELSE left

\* draw_buf_jit's return value; its two buffer updates (last_buf[:] = buf[:],
\* buf[:, :, :] = 0) are made by the actions that call it.
draw_buf_jit(w, h, lastb, b) ==
    DrawScan([last_color |-> <<0, 0, 0>>, char_buf |-> <<>>],
             0, w * h - 1, h, lastb, b).char_buf

----------------------------------------------------------------------------
(* The terminal that receives the output *)

BlankGlyph == [color |-> <<0, 0, 0>>, char |-> 32]

TermInit(w, h) ==
    [cells |-> [c \in Cells(w, h) |-> BlankGlyph],
     pen   |-> <<0, 0, 0>>,        \* no colour set yet
     cx    |-> 0,
     cy    |-> 0]

TermStep(t, tok) ==
    CASE tok.op = "CUP"  -> [t EXCEPT !.cy = tok.a - 1, !.cx = tok.b - 1]
      [] tok.op = "SGR"  -> [t EXCEPT !.pen = <<tok.a, tok.b, tok.c>>]
      [] tok.op = "SGR0" -> [t EXCEPT !.pen = <<0, 0, 0>>]
      [] tok.op = "CH"   ->
            IF <<t.cx, t.cy>> \in DOMAIN t.cells
            THEN [t EXCEPT !.cells[<<t.cx, t.cy>>] = [color |-> t.pen, char |-> tok.a],
                           !.cx = t.cx + 1]
            ELSE [t EXCEPT !.cx = t.cx + 1]
      [] OTHER -> t

\* The tokens lo .. hi of toks applied in order (in halves, as DrawScan)
RECURSIVE TermApply(_, _, _, _)
TermApply(t, toks, lo, hi) ==
    IF lo > hi THEN t
    ELSE IF lo = hi THEN TermStep(t, toks[lo])
    ELSE LET mid  == (lo + hi) \div 2
             left == TermApply(t, toks, lo, mid)
         IN  IF left.cx = left.cx
             THEN TermApply(left, toks, mid + 1, hi)
             ELSE left

\* The terminal shows buffer b: the same glyph in every cell (an empty cell is a
\* space) and, for a visible glyph, the same colour.
Shows(t, b) ==
    \A c \in DOMAIN b :
        LET g == IF CellChar(b[c]) = 0 THEN 32 ELSE CellChar(b[c])
        IN  /\ t.cells[c].char = g
            /\ g # 32 => t.cells[c].color = CellColor(b[c])

\* buf[x, y, 0:3] = tuple(color); buf[x, y, 3] = char
PaintCell(b, px, py, color, char) ==
    [b EXCEPT ![<<px, py>>] = <<color[1], color[2], color[3], char>>]

----------------------------------------------------------------------------
(* Program constants *)

\* COLORS: '#FFFFFF', '#F6AAB7', '#55CDFD'
COLORS == {<<255, 255, 255>>, <<246, 170, 183>>, <<85, 205, 253>>}

\* RGB.from_hex('#ffe797'), the cat's colour
CAT_COLOR == <<255, 231, 151>>

SNOW_CHAR == 42     \* ord('*')

----------------------------------------------------------------------------
(* ASCII art: AsciiArt, get_ascii_dimensions, generate_bubble *)

RECURSIVE MaxLen(_, _)
MaxLen(lines, i) ==
    IF i > Len(lines) THEN 0 ELSE Max(Len(lines[i]), MaxLen(lines, i + 1))

\* get_ascii_dimensions: height counts the line breaks, width is the longest line
get_ascii_dimensions(lines) == <<Len(lines) - 1, MaxLen(lines, 1)>>

\* ASC_CAT.art after strip("\n"), line by line
ASC_CAT ==
    << <<32, 47, 92, 95, 47, 92, 32>>,        \*  /\_/\
       <<40, 32, 124, 32, 124, 32, 41>>,      \* ( | | )
       <<32, 62, 32, 32, 32, 60, 32>> >>      \*  >   <

ASC_CAT_h == get_ascii_dimensions(ASC_CAT)[1]
ASC_CAT_w == get_ascii_dimensions(ASC_CAT)[2]

Rep(char, n) == [i \in 1 .. n |-> char]

\* generate_bubble on the stripped, non-empty lines of its text (none longer
\* than wrap_lines' max_width, so wrapping leaves them as they are)
generate_bubble(lines) ==
    LET text_width == MaxLen(lines, 1)
    IN  << <<46>> \o Rep(61, text_width + 2) \o <<46>> >>
        \o [i \in 1 .. Len(lines) |->
               <<124, 32>> \o lines[i]
                   \o Rep(32, text_width - Len(lines[i]) + 1) \o <<124>>]
        \o << <<39>> \o Rep(61, text_width + 2) \o <<39>> >>

\* 'I hope I can sleep\n on the tree', split and stripped
CAT_TEXT ==
    << <<73, 32, 104, 111, 112, 101, 32, 73, 32, 99, 97, 110, 32,
         115, 108, 101, 101, 112>>,
       <<111, 110, 32, 116, 104, 101, 32, 116, 114, 101, 101>> >>

CAT_BUBBLE == generate_bubble(CAT_TEXT)

----------------------------------------------------------------------------
(* print_ascii: numpy slice assignment of each line into the buffer *)

\* A slice bound as Python clips it to an axis of length n
SliceBound(i, n) == IF i < 0 THEN Max(i + n, 0) ELSE Min(i, n)

\* Lines i.. of asc written at (px, py) into b. A row index outside [-h, h) is
\* an IndexError; a column slice whose length is not the line's is a ValueError
\* (the colour of the slice has been set by then). Result: [b, ok].
RECURSIVE PrintLines(_, _, _, _, _, _, _, _)
PrintLines(b, w, h, asc, i, px, py, color) ==
    IF i > Len(asc) THEN [b |-> b, ok |-> TRUE]
    ELSE LET line  == asc[i]
             row   == py + (i - 1) - 1
             r     == IF row < 0 THEN row + h ELSE row
             start == SliceBound(px, w)
             stop  == SliceBound(px + Len(line), w)
             cols  == start .. stop - 1
             coloured == [c \in DOMAIN b |->
                             IF c[2] = r /\ c[1] \in cols
                             THEN <<color[1], color[2], color[3], b[c][4]>>
                             ELSE b[c]]
             written  == [c \in DOMAIN b |->
                             IF c[2] = r /\ c[1] \in cols
                             THEN <<color[1], color[2], color[3],
                                    IF Len(line) = 1 THEN line[1]
                                    ELSE line[c[1] - start + 1]>>
                             ELSE b[c]]
         IN  IF row < -h \/ row >= h THEN [b |-> b, ok |-> FALSE]
             ELSE IF Max(stop - start, 0) # Len(line) /\ Len(line) # 1
             THEN [b |-> coloured, ok |-> FALSE]
             ELSE PrintLines(written, w, h, asc, i + 1, px, py, color)

print_ascii(b, w, h, asc, px, py, color) == PrintLines(b, w, h, asc, 1, px, py, color)

\* draw_cat: the cat, then its speech bubble
draw_cat(b, w, h, cx, cy) ==
    LET cat == print_ascii(b, w, h, ASC_CAT, cx, cy, CAT_COLOR)
    IN  IF ~cat.ok THEN cat
        ELSE print_ascii(cat.b, w, h, CAT_BUBBLE, cx + 6, cy - 3, CAT_COLOR)

----------------------------------------------------------------------------
(* Snow. Positions are in quarter cells and dt in sixteenths of a second, so *)
(* that a velocity in cells per second that is a multiple of 4 moves a       *)
(* particle by a whole number of quarter cells.                              *)

Q == 4              \* position units per cell

\* Python's round(): to the nearest integer, a half to the even neighbour
Round(q) ==
    LET n == FloorDiv(q, Q)
        r == q - n * Q
    IN  IF 2 * r < Q THEN n
        ELSE IF 2 * r > Q THEN n + 1
        ELSE IF n % 2 = 0 THEN n ELSE n + 1

\* rand_velocity(): xv in [-0.8, 0.8] * SNOW_SPEED, yv in [1, 2] * SNOW_SPEED.
\* The values drawn here:
Velocities == {<<-4, 8>>, <<4, 16>>}

\* The time steps drawn in a session, in sixteenths of a second
Dts == {1}

\* The displacement with the time step taken a sixteenth too long
Displacement_late(v, dt) == (v * (dt + 1) * Q) \div 16

\* p.xv * dt, p.yv * dt in position units
Displacement(v, dt) == (v * dt * Q) \div 16

\* random.choice(COLORS): the colour drawn here
SnowColors == {<<246, 170, 183>>}

\* create_snow: count particles at random.randint(0, width), randint(0, height)
\* (both ends included), sorted by y. The positions drawn in a session are
\* the corner where both draws are at their upper end, and a point above the
\* middle of the bottom edge (where the cat stands); SnowSpec draws them all.
SpawnPoints(w, h) == {<<w, h>>, <<w \div 2, h - 2>>}

\* The velocity a particle is given at its creation in a session (a reset
\* draws from all of Velocities)
SpawnVelocities == {<<-4, 8>>}

SpawnParticles(w, h) ==
    {[x |-> pt[1] * Q, y |-> pt[2] * Q, xv |-> v[1], yv |-> v[2], color |-> col] :
        pt \in SpawnPoints(w, h), v \in SpawnVelocities, col \in SnowColors}

SnowCount == 1      \* particles per session

IsSortedByY(ps) == \A i \in 1 .. Len(ps) - 1 : ps[i].y <= ps[i + 1].y

create_snow(w, h) ==
    {ps \in [1 .. SnowCount -> SpawnParticles(w, h)] : IsSortedByY(ps)}

\* One particle's step of update_snow; nv is the velocity rand_velocity() gives
\* if the particle is reset.
MoveParticle(p, w, h, dt, nv) ==
    LET x1 == p.x + Displacement(p.xv, dt)
        y1 == p.y + Displacement(p.yv, dt)
        x2 == Max(1 * Q, Min((w - 1) * Q, x1))
    IN  IF y1 >= (h - 1) * Q
        THEN [p EXCEPT !.x = x2, !.y = 1 * Q, !.xv = nv[1], !.yv = nv[2]]
        ELSE [p EXCEPT !.x = x2, !.y = y1]

\* update_snow from particle i on: move, then paint at the rounded position.
\* An index outside the buffer is an IndexError. Result: [snow, b, ok].
RECURSIVE UpdateSnowFrom(_, _, _, _, _, _, _)
UpdateSnowFrom(ps, i, b, w, h, dt, nvs) ==
    IF i > Len(ps) THEN [snow |-> ps, b |-> b, ok |-> TRUE]
    ELSE LET p  == MoveParticle(ps[i], w, h, dt, nvs[i])
             c  == <<Round(p.x), Round(p.y)>>
             ps1 == [ps EXCEPT ![i] = p]
         IN  IF c \notin DOMAIN b
             THEN [snow |-> ps1, b |-> b, ok |-> FALSE]
             ELSE UpdateSnowFrom(ps1, i + 1,
                                 PaintCell(b, c[1], c[2], p.color, SNOW_CHAR),
                                 w, h, dt, nvs)

update_snow(ps, b, w, h, dt, nvs) == UpdateSnowFrom(ps, 1, b, w, h, dt, nvs)

\* The rand_velocity() results update_snow may draw: one per particle that is
\* reset (for one that is not, nothing is drawn, and its own velocity stands here)
Resets(ps, h, dt) ==
    {nvs \in [1 .. Len(ps) -> Velocities] :
        \A i \in 1 .. Len(ps) :
            ps[i].y + Displacement(ps[i].yv, dt) < (h - 1) * Q
                => nvs[i] = <<ps[i].xv, ps[i].yv>>}

----------------------------------------------------------------------------
(* get_size: the size query and the parse of its response *)

RECURSIVE Dec(_)
Dec(n) == IF n < 10 THEN <<48 + n>> ELSE Dec(n \div 10) \o <<48 + (n % 10)>>

\* What a terminal of the given size answers to ESC[18t: ESC[8;{rows};{cols}t
SizeResponse(rows, cols) ==
    <<27, 91, 56, 59>> \o Dec(rows) \o <<59>> \o Dec(cols) \o <<116>>

\* str.split(sep) for a one-character separator
RECURSIVE SplitFrom(_, _, _, _)
SplitFrom(str, sep, i, cur) ==
    IF i > Len(str) THEN <<cur>>
    ELSE IF str[i] = sep THEN <<cur>> \o SplitFrom(str, sep, i + 1, <<>>)
    ELSE SplitFrom(str, sep, i + 1, Append(cur, str[i]))

Split(str, sep) == SplitFrom(str, sep, 1, <<>>)

IsDigits(str) == Len(str) > 0 /\ \A i \in 1 .. Len(str) : str[i] \in 48 .. 57

RECURSIVE DigitsValue(_, _)
DigitsValue(str, n) ==
    IF n = 0 THEN 0 ELSE DigitsValue(str, n - 1) * 10 + (str[n] - 48)

\* The parse of get_size: size.split(';')[1:3] must hold two parts (else the
\* unpacking raises), int(height) and int(width[:-1]) must parse (else
\* ValueError). The responses drawn here hold no sign, blank or underscore,
\* which int() would also accept.
get_size(size) ==
    LET parts  == Split(size, 59)
        second == IF Len(parts) >= 3 THEN parts[3] ELSE <<>>
        w_text == SubSeq(second, 1, Len(second) - 1)
    IN  IF Len(parts) < 3 THEN [ok |-> FALSE, height |-> 0, width |-> 0]
        ELSE IF ~IsDigits(parts[2]) \/ ~IsDigits(w_text)
        THEN [ok |-> FALSE, height |-> 0, width |-> 0]
        ELSE [ok |-> TRUE,
              height |-> DigitsValue(parts[2], Len(parts[2])),
              width  |-> DigitsValue(w_text, Len(w_text))]

----------------------------------------------------------------------------
(* Values the variables of the other specifications hold while one runs *)

SceneOff == /\ width = 0 /\ height = 0 /\ x = 0 /\ y = 0 /\ snow = <<>>
            /\ buf = <<>> /\ last_buf = <<>>
CtlOff   == /\ main_pc = "off" /\ inp_pc = "off" /\ upd_pc = "off"
            /\ closed = FALSE /\ eof = "no" /\ sent = <<>> /\ last_inp = <<>>
            /\ ticks = 0 /\ late = 0
DiffOff  == /\ term = <<>> /\ out = <<>> /\ renders = 0 /\ paints = 0
            /\ pre_paints = 0 /\ pre_synced = FALSE /\ frame = <<>>
RelayOff == rl = <<>>
SnowOff  == snow_call = <<>>

----------------------------------------------------------------------------
(* Spec: one session of telnet.py's shell()                                 *)

MaxTicks == 2       \* update() calls per session

\* What is written to the writer besides glyphs and colours
Ctl(name) == [op |-> name, a |-> 0, b |-> 0, c |-> 0]
ED2      == Ctl("ED2")                  \* '\x1b[2J'
HOME     == Ctl("HOME")                 \* '\x1b[H'
SIZEQ    == Ctl("SIZEQ")                \* '\x1b[18t'
PARK     == CUP(9999, 9999)             \* '\x1b[9999;9999H'
BYE      == Ctl("BYE")                  \* '\r\nBye!\r\n'
SHOWCUR  == Ctl("SHOWCUR")              \* '\x1b[?25h'
\* writer.write(char_buf) of a frame n tokens long; the frame itself is in out
FRAME(n) == [op |-> "FRAME", a |-> n, b |-> 0, c |-> 0]
\* The writer's other calls, logged in order with its writes
DRAIN    == Ctl("DRAIN")                \* await writer.drain()
CLOSE    == Ctl("CLOSE")                \* writer.close()

\* The terminal sizes drawn here, <<rows, cols>>
TermSizes == {<<6, 48>>, <<6, 7>>}

\* Responses to the size query: well-formed ones, and an empty read, two
\* truncated ones ("ESC[8;6" and "ESC[8;6;77", a 77-column terminal's answer
\* less its last byte) and one with a letter for the rows ("ESC[8;x;48t")
Responses ==
    {SizeResponse(sz[1], sz[2]) : sz \in TermSizes}
    \cup {<<>>, <<27, 91, 56, 59, 54>>, <<27, 91, 56, 59, 54, 59, 55, 55>>,
          <<27, 91, 56, 59, 120, 59, 52, 56, 116>>}

KEY_RIGHT == <<27, 91, 67>>             \* '\x1b[C'
KEY_LEFT  == <<27, 91, 68>>             \* '\x1b[D'
KEY_d     == <<100>>
KEY_a     == <<97>>
KEY_ESC   == <<27>>
KEY_q     == <<113>>
KEY_CTRLC == <<3>>

\* The texts reader.read(3) returns here, besides the empty text at EOF
Inputs ==
    {KEY_RIGHT, KEY_LEFT, KEY_d, KEY_a, KEY_ESC, KEY_q, KEY_CTRLC, <<120>>}

Init ==
    /\ main_pc = "handshake"
    /\ inp_pc = "off" /\ upd_pc = "off"
    /\ closed = FALSE /\ eof = "no"
    /\ sent = <<>> /\ last_inp = <<>>
    /\ ticks = 0 /\ late = 0
    /\ SceneOff /\ DiffOff /\ RelayOff /\ SnowOff

\* move(delta) with the upper clamp left out
move_unclamped(cx, cy, w, delta) ==
    [x |-> Max(cx + delta, 0), writes |-> <<>>]

\* move(delta): the new x, and the erase sequences written straight to the writer
move(cx, cy, w, delta) ==
    LET nx == Min(Max(cx + delta, 0), w - ASC_CAT_w)
        erase(col) == [i \in 1 .. 3 * ASC_CAT_h |->
                          LET row == cy + ((i - 1) \div 3)
                          IN  CASE i % 3 = 1 -> CUP(row, col)
                                [] i % 3 = 2 -> SGR0
                                [] OTHER     -> CH(32)]
    IN  [x |-> nx,
         writes |-> IF cx > nx THEN erase(cx + ASC_CAT_w - 1)
                    ELSE IF cx < nx THEN erase(cx)
                    ELSE <<>>]

\* update() that paints the cat where it stood before the move of the input
\* being handled (as if the move and the update were apart)
update_before_move(cx, dt, nvs) ==
    LET sn  == update_snow(snow, buf, width, height, dt, nvs)
        o   == draw_buf_jit(width, height, last_buf, sn.b)
        cat == draw_cat(init_buffers(width, height), width, height, x, y)
    IN  IF ~sn.ok
        THEN [snow |-> sn.snow, buf |-> sn.b, last_buf |-> last_buf, out |-> out,
              writes |-> <<>>, ok |-> FALSE]
        ELSE [snow |-> sn.snow, buf |-> cat.b, last_buf |-> sn.b, out |-> o,
              writes |-> IF cat.ok THEN <<FRAME(Len(o)), PARK>> ELSE <<FRAME(Len(o))>>,
              ok |-> cat.ok]

\* update(): update_snow, draw_buf (draw_buf_jit and the write of its output),
\* draw_cat, the cursor parked; the drain that ends it is a step of its own.
\* cx is the cat's x by now. An exception ends it where it is raised.
update(cx, dt, nvs) ==
    LET sn  == update_snow(snow, buf, width, height, dt, nvs)
        o   == draw_buf_jit(width, height, last_buf, sn.b)
        cat == draw_cat(init_buffers(width, height), width, height, cx, y)
    IN  IF ~sn.ok
        THEN [snow |-> sn.snow, buf |-> sn.b, last_buf |-> last_buf, out |-> out,
              writes |-> <<>>, ok |-> FALSE]
        ELSE [snow |-> sn.snow, buf |-> cat.b, last_buf |-> sn.b, out |-> o,
              writes |-> IF cat.ok THEN <<FRAME(Len(o)), PARK>> ELSE <<FRAME(Len(o))>>,
              ok |-> cat.ok]

\* on_input with 'x' taken for a move to the right
on_input_x_moves(inp) ==
    CASE inp \in {KEY_RIGHT, KEY_d, <<120>>} -> [kind |-> "move", delta |-> 1]
      [] inp \in {KEY_LEFT, KEY_a}           -> [kind |-> "move", delta |-> -1]
      [] inp \in {KEY_ESC, KEY_q, KEY_CTRLC} -> [kind |-> "quit", delta |-> 0]
      [] OTHER                               -> [kind |-> "unknown", delta |-> 0]

\* on_input's match statement
on_input(inp) ==
    CASE inp \in {KEY_RIGHT, KEY_d}          -> [kind |-> "move", delta |-> 1]
      [] inp \in {KEY_LEFT, KEY_a}           -> [kind |-> "move", delta |-> -1]
      [] inp \in {KEY_ESC, KEY_q, KEY_CTRLC} -> [kind |-> "quit", delta |-> 0]
      [] OTHER                               -> [kind |-> "unknown", delta |-> 0]

\* Number of writer.write calls among the logged calls
RECURSIVE Writes(_, _)
Writes(log, i) ==
    IF i > Len(log) THEN 0
    ELSE (IF log[i].op \in {"DRAIN", "CLOSE"} THEN 0 ELSE 1) + Writes(log, i + 1)

\* A drain on a writer that is closing, or whose peer is gone, may raise
\* ConnectionResetError or complete, as the transport has it.
DrainOutcomes == IF closed \/ eof # "no" THEN {TRUE, FALSE} ELSE {TRUE}

\* shell() up to the gather: clear(), get_size(), the cat placed, the snow
\* created, the buffers initialised, and both tasks started.
Handshake ==
    /\ main_pc = "handshake"
    /\ sent' = <<ED2, HOME, SIZEQ, DRAIN>>
    /\ \E size \in Responses :
          LET sz == get_size(size)
          IN  /\ last_inp' = size
              /\ IF sz.ok
                 THEN /\ height' = sz.height
                      /\ width' = sz.width
                      /\ x' = FloorDiv(sz.width - ASC_CAT_w, 2)
                      /\ y' = sz.height - ASC_CAT_h
                      /\ snow' \in create_snow(sz.width, sz.height)
                      /\ buf' = init_buffers(sz.width, sz.height)
                      /\ last_buf' = init_buffers(sz.width, sz.height)
                      /\ main_pc' = "running"
                      /\ inp_pc' = "read"
                      /\ upd_pc' = "update"
                 ELSE /\ main_pc' = "failed"
                      /\ UNCHANGED <<scene_vars, inp_pc, upd_pc>>
    /\ UNCHANGED <<closed, eof, ticks, late, diff_vars, rl, snow_call>>

\* The peer closes the connection: the reader is at EOF from now on
PeerClose ==
    /\ main_pc \in {"running", "failed"}
    /\ inp_pc # "off"
    /\ eof = "no"
    /\ eof' = "closed"
    /\ sent' = <<>>
    /\ UNCHANGED <<scene_vars, main_pc, inp_pc, upd_pc, closed, last_inp, ticks, late,
                   diff_vars, rl, snow_call>>

\* listen_input at EOF: reader.read(3) returns the empty text, on_input is
\* not called, and the loop reads again
InputEOF ==
    /\ inp_pc = "read"
    /\ eof # "no"
    /\ last_inp' = <<>>
    /\ eof' = "seen"
    /\ sent' = <<>>
    /\ UNCHANGED <<scene_vars, main_pc, inp_pc, upd_pc, closed, ticks, late, diff_vars, rl, snow_call>>

\* listen_input: reader.read(3) returns a quit token; on_input says goodbye,
\* closes the writer and returns True, and listen_input returns
InputQuit ==
    /\ inp_pc = "read"
    /\ eof = "no"
    /\ \E inp \in Inputs :
          /\ on_input(inp).kind = "quit"
          /\ last_inp' = inp
    /\ sent' = <<BYE, CLOSE>>
    /\ closed' = TRUE
    /\ inp_pc' = "done"
    /\ UNCHANGED <<scene_vars, main_pc, upd_pc, eof, ticks, late, diff_vars, rl, snow_call>>

\* listen_input: reader.read(3) returns any other text; on_input moves the cat
\* or logs the unknown input, then runs update() up to its drain
InputOther ==
    /\ inp_pc = "read"
    /\ eof = "no"
    /\ ticks < MaxTicks
    /\ \E dt \in Dts, act \in {on_input(inp) : inp \in Inputs} :
       \E nvs \in Resets(snow, height, dt) :
          LET mv == IF act.kind = "move" THEN move(x, y, width, act.delta)
                    ELSE [x |-> x, writes |-> <<>>]
              u  == update(mv.x, dt, nvs)
          IN  /\ act.kind # "quit"
              /\ \E inp \in Inputs : on_input(inp) = act /\ last_inp' = inp
              /\ x' = mv.x
              /\ snow' = u.snow
              /\ buf' = u.buf
              /\ last_buf' = u.last_buf
              /\ out' = u.out
              /\ sent' = mv.writes \o u.writes
              /\ inp_pc' = IF u.ok THEN "drain" ELSE "failed"
    /\ ticks' = ticks + 1
    /\ UNCHANGED <<width, height, y, main_pc, upd_pc, closed, eof, late, rl, snow_call>>
    /\ UNCHANGED <<term, renders, paints, pre_paints, pre_synced, frame>>

\* on_input's update() comes back from its drain, and listen_input reads again
InputDrained ==
    /\ inp_pc = "drain"
    /\ \E ok \in DrainOutcomes : inp_pc' = IF ok THEN "read" ELSE "failed"
    /\ sent' = <<DRAIN>>
    /\ UNCHANGED <<scene_vars, main_pc, upd_pc, closed, eof, last_inp, ticks, late,
                   diff_vars, rl, snow_call>>

\* listen_update: update() up to its drain
UpdateTick ==
    /\ upd_pc = "update"
    /\ ticks < MaxTicks
    /\ \E dt \in Dts : \E nvs \in Resets(snow, height, dt) :
          LET u == update(x, dt, nvs)
          IN  /\ snow' = u.snow
              /\ buf' = u.buf
              /\ last_buf' = u.last_buf
              /\ out' = u.out
              /\ sent' = u.writes
              /\ late' = IF closed THEN late + Writes(u.writes, 1) ELSE late
              /\ upd_pc' = IF u.ok THEN "drain" ELSE "failed"
    /\ ticks' = ticks + 1
    /\ UNCHANGED <<width, height, x, y, main_pc, inp_pc, closed, eof, last_inp, rl, snow_call>>
    /\ UNCHANGED <<term, renders, paints, pre_paints, pre_synced, frame>>

\* listen_update: update() comes back from its drain; asyncio.sleep(1 / 20)
UpdateDrained ==
    /\ upd_pc = "drain"
    /\ \E ok \in DrainOutcomes : upd_pc' = IF ok THEN "sleep" ELSE "failed"
    /\ sent' = <<DRAIN>>
    /\ UNCHANGED <<scene_vars, main_pc, inp_pc, closed, eof, last_inp, ticks, late,
                   diff_vars, rl, snow_call>>

\* listen_update: the sleep is over
UpdateWake ==
    /\ upd_pc = "sleep"
    /\ upd_pc' = "update"
    /\ sent' = <<>>
    /\ UNCHANGED <<scene_vars, main_pc, inp_pc, closed, eof, last_inp, ticks, late,
                   diff_vars, rl, snow_call>>

\* asyncio.gather(listen_input(), listen_update()): the first exception of a
\* task is raised in shell(), which ends with it; the other task is left
\* running. (listen_update never returns, so the gather has no other end.)
GatherRaise ==
    /\ main_pc = "running"
    /\ inp_pc = "failed" \/ upd_pc = "failed"
    /\ main_pc' = "failed"
    /\ sent' = <<>>
    /\ UNCHANGED <<scene_vars, inp_pc, upd_pc, closed, eof, last_inp, ticks, late,
                   diff_vars, rl, snow_call>>

Next ==
    \/ Handshake
    \/ PeerClose
    \/ InputEOF
    \/ InputQuit
    \/ InputOther
    \/ InputDrained
    \/ UpdateTick
    \/ UpdateDrained
    \/ UpdateWake
    \/ GatherRaise

Spec == Init /\ [][Next]_vars

\* C1: Actor x is always clamped. After the handshake on a terminal at least
\* as wide as the cat, whatever moves and render ticks have happened,
\* 0 <= x <= width - ASC_CAT.w.
C1_ActorClamped ==
    (main_pc \in {"running", "failed"} /\ width >= ASC_CAT_w)
        => (0 <= x /\ x <= width - ASC_CAT_w)

\* A move to the right has been handled and the cat stands at the right edge
C1_Witness ==
    /\ main_pc \in {"running", "failed"}
    /\ width >= ASC_CAT_w
    /\ last_inp \in {KEY_RIGHT, KEY_d}
    /\ inp_pc \in {"drain", "failed"}
    /\ x = width - ASC_CAT_w

\* C4: Quit tokens close the session cleanly. Whenever a step closes the
\* writer, that step has written the farewell, restored the cursor's
\* visibility, drained and closed, in that order.
C4_QuitClosesCleanly ==
    (sent # <<>> /\ sent[Len(sent)] = CLOSE)
        => sent = <<BYE, SHOWCUR, DRAIN, CLOSE>>

\* C5: once the input activity has ended after a quit token, the render
\* activity is cancelled: no further render tick runs and nothing more is
\* written.
C5_RenderCancelledOnQuit ==
    [][inp_pc = "done" => (ticks' = ticks /\ late' = late)]_vars

\* C6: once the input read has returned the empty text at EOF, the input
\* activity has terminated (it is not about to read again, nor inside a
\* handler).
C6_EofEndsInput ==
    eof = "seen" => inp_pc \notin {"read", "drain"}

\* The step in which listen_input handles the text it has read
InputHandled == inp_pc = "read" /\ inp_pc' # "read"

C11_PaintNeverFails ==
    (main_pc \in {"running", "failed"} /\ 0 <= x /\ x <= width - ASC_CAT_w)
        => draw_cat(init_buffers(width, height), width, height, x, y).ok

\* The cells print_ascii(ASC_CAT, px, py) writes, and the glyph it writes to one
CatCells(px, py) ==
    {c \in Cells(width, height) :
        /\ c[1] \in px .. px + ASC_CAT_w - 1
        /\ c[2] \in py - 1 .. py - 1 + Len(ASC_CAT) - 1}

CatGlyph(c, px, py) == ASC_CAT[c[2] - (py - 1) + 1][c[1] - px + 1]

\* The latest step was a tick: update() has diffed and written a frame, which
\* last_buf now holds
FrameFlushed == \E i \in 1 .. Len(sent) : sent[i].op = "FRAME"

\* C12: tick ordering. In every frame flushed by a tick that ran to its
\* drain, a cell that holds a particle and is covered by the cat shows the
\* cat's glyph in the cat's colour.
C12_ActorOnTop ==
    (main_pc = "running" /\ FrameFlushed /\ inp_pc # "failed" /\ upd_pc # "failed")
        => \A i \in 1 .. Len(snow) :
              LET c == <<Round(snow[i].x), Round(snow[i].y)>>
              IN  c \in CatCells(x, y)
                     => last_buf[c] = <<CAT_COLOR[1], CAT_COLOR[2], CAT_COLOR[3],
                                        CatGlyph(c, x, y)>>

\* A size response of the form ESC[8;{rows};{cols}t
WellFormed(size) ==
    LET parts == Split(size, 59)
    IN  /\ Len(parts) = 3
        /\ parts[1] = <<27, 91, 56>>
        /\ IsDigits(parts[2])
        /\ Len(parts[3]) >= 2
        /\ parts[3][Len(parts[3])] = 116
        /\ IsDigits(SubSeq(parts[3], 1, Len(parts[3]) - 1))

\* C15: handshake failure is fatal and single-shot. When the size response is
\* not of the form ESC[8;{rows};{cols}t, shell() ends in the handshake: the
\* size query has been sent once, no scene is allocated, no task is started
\* and no farewell is written.
C15_HandshakeFailureFatal ==
    [][(main_pc = "handshake" /\ main_pc' # "handshake" /\ ~WellFormed(last_inp'))
        => (/\ main_pc' = "failed"
            /\ sent' = <<ED2, HOME, SIZEQ, DRAIN>>
            /\ buf' = <<>> /\ snow' = <<>>
            /\ inp_pc' = "off" /\ upd_pc' = "off")]_vars

\* C16: no partial mutation is visible across the two activities. At every
\* suspension point of a running session in which no task has failed, the
\* current buffer holds the cat painted whole at its current position and
\* nothing else (so an input's move and its repaint are never seen apart, and
\* no tick is seen half done); and while an input is being handled (its
\* update() awaits the drain) no other input is read.
C16_SettledScene ==
    /\ []((/\ main_pc = "running" /\ ticks >= 1
           /\ inp_pc # "failed" /\ upd_pc # "failed")
          => buf = draw_cat(init_buffers(width, height), width, height, x, y).b)
    /\ [][inp_pc = "drain" => last_inp' = last_inp]_vars

\* A move to the left has been handled, up to its drain, while the render
\* tick awaits its own drain
C16_Witness ==
    /\ main_pc = "running"
    /\ inp_pc = "drain" /\ upd_pc = "drain"
    /\ last_inp \in {KEY_LEFT, KEY_a}
    /\ x = FloorDiv(width - ASC_CAT_w, 2) - 1

\* C17: handling an input emits no direct output. For a move or an
\* unrecognized input, the step that handles it writes nothing to the writer.
C17_InputWritesNothing ==
    [][(InputHandled /\ on_input(last_inp').kind # "quit")
        => Writes(sent', 1) = 0]_vars

----------------------------------------------------------------------------
(* RelaySpec: one session of relay.py's shell()                             *)

MaxChunks == 2      \* chunks the child emits
MaxInputs == 1      \* texts the telnet client sends

SENTINEL == <<0, 0, 0>>                  \* b'\00\00\00'

THANKS == Ctl("THANKS")                 \* "\r\nThanks for visiting <3\r\n"

\* The payloads the child emits here: b'hello', b'ok', and a byte that is
\* not valid UTF-8
Payloads == {<<104, 101, 108, 108, 111>>, <<111, 107>>, <<255>>}

\* What reader.read(3) returns here while the connection is open
RelayInputs == {<<27, 91, 67>>, <<113>>}

\* The end of the first separator in data, or 0 when it holds none
RECURSIVE FindSep(_, _)
FindSep(data, i) ==
    IF i + Len(SENTINEL) - 1 > Len(data) THEN 0
    ELSE IF SubSeq(data, i, i + Len(SENTINEL) - 1) = SENTINEL
    THEN i + Len(SENTINEL) - 1
    ELSE FindSep(data, i + 1)

\* proc.stdout.readuntil(b'\00\00\00') on buffered data: the bytes up to and
\* including the first separator, and the rest
readuntil(data) ==
    LET n == FindSep(data, 1)
    IN  [found |-> n > 0,
         chunk |-> SubSeq(data, 1, n),
         rest  |-> SubSeq(data, n + 1, Len(data))]

\* bytes.decode(): UTF-8. The bytes drawn here are ASCII, which decode to the
\* same code points, or 0xFF, which raises UnicodeDecodeError.
decode(bytes) ==
    [ok   |-> \A i \in 1 .. Len(bytes) : bytes[i] < 128,
     text |-> bytes]

\* The forwarding with the separator cut off first (what the scenario of the
\* spec describes)
forward_stripped(chunk) ==
    decode(SubSeq(chunk, 1, Len(chunk) - Len(SENTINEL)))

\* relay_stdout's forwarding of one chunk: writer.write(out.decode())
forward(chunk) == decode(chunk)

Stopped == {"ended", "cancelled", "failed"}

RelayInit ==
    /\ rl = [pc        |-> "handshake",  \* shell()
             out_pc    |-> "off",        \* relay_stdout task
             in_pc     |-> "off",        \* relay_stdin task
             first     |-> "none",       \* how the first task to end ended
             proc      |-> "none",       \* the child: none, running, exited, killed
             stdout    |-> <<>>,         \* bytes buffered in proc.stdout
             stream    |-> <<>>,         \* all the bytes the child has emitted
             chunks    |-> 0,            \* chunks the child has emitted
             wrote     |-> <<>>,         \* the texts relay_stdout wrote, in order
             inputs    |-> 0,            \* texts forwarded to proc.stdin
             peer_gone |-> FALSE,        \* the telnet peer closed the connection
             closed    |-> FALSE,        \* writer.close() was called
             log       |-> <<>>]         \* shell()'s own calls on the writer
    /\ SceneOff /\ CtlOff /\ DiffOff /\ SnowOff

RelayStep(next) ==
    /\ rl' = next
    /\ UNCHANGED <<scene_vars, ctl_vars, diff_vars, snow_call>>

\* A task ends: the gather takes the first end it sees
EndFirst(r, how) == IF r.first = "none" THEN [r EXCEPT !.first = how] ELSE r

\* A drain (of the writer with the peer gone, of proc.stdin with the child
\* gone) may raise ConnectionResetError or complete, as the transport has it
RelayDrainOutcomes(gone) == IF gone THEN {TRUE, FALSE} ELSE {TRUE}

\* shell() up to the two tasks: get_size(), the child spawned, the tasks
\* created; each task runs to its first await (the checks at the top of its
\* loop pass)
RHandshake ==
    /\ rl.pc = "handshake"
    /\ \E size \in Responses :
          IF get_size(size).ok
          THEN RelayStep([rl EXCEPT !.pc = "gather", !.proc = "running",
                                    !.out_pc = "read", !.in_pc = "read",
                                    !.log = <<SIZEQ, DRAIN>>])
          ELSE RelayStep([rl EXCEPT !.pc = "failed", !.log = <<SIZEQ, DRAIN>>])

\* The child writes a payload and the sentinel to its stdout
ChildEmit ==
    /\ rl.proc = "running"
    /\ rl.chunks < MaxChunks
    /\ \E payload \in Payloads :
          RelayStep([rl EXCEPT !.stdout = @ \o payload \o SENTINEL,
                               !.stream = @ \o payload \o SENTINEL,
                               !.chunks = @ + 1])

\* The child exits by itself: its stdout is at EOF and proc.returncode is set
ChildExit ==
    /\ rl.proc = "running"
    /\ RelayStep([rl EXCEPT !.proc = "exited"])

\* The telnet peer closes the connection: the reader is at EOF
RPeerClose ==
    /\ rl.pc \in {"gather", "closing"}
    /\ ~rl.peer_gone
    /\ RelayStep([rl EXCEPT !.peer_gone = TRUE])

\* The loop head of relay_stdout after an iteration: the next await, or the
\* CancelledError raised after the loop
OutLoop(r) ==
    IF r.closed \/ r.proc # "running"
    THEN EndFirst([r EXCEPT !.out_pc = "ended"], "ended")
    ELSE [r EXCEPT !.out_pc = "read"]

\* relay_stdout wakes from readuntil: a chunk (decoded, written, then the
\* drain), or IncompleteReadError at EOF (the loop is left)
OutRead ==
    /\ rl.out_pc = "read"
    /\ LET got == readuntil(rl.stdout)
           txt == forward(got.chunk)
       IN  IF got.found
           THEN IF txt.ok
                THEN RelayStep([rl EXCEPT !.stdout = got.rest,
                                          !.wrote = Append(@, txt.text),
                                          !.out_pc = "drain"])
                ELSE RelayStep(EndFirst([rl EXCEPT !.stdout = got.rest,
                                                   !.out_pc = "failed"], "failed"))
           ELSE /\ rl.proc # "running"
                /\ RelayStep(EndFirst([rl EXCEPT !.out_pc = "ended"], "ended"))

\* relay_stdout wakes from writer.drain()
OutDrained ==
    /\ rl.out_pc = "drain"
    /\ \E ok \in RelayDrainOutcomes(rl.peer_gone) :
          IF ok THEN RelayStep(OutLoop(rl))
          ELSE RelayStep(EndFirst([rl EXCEPT !.out_pc = "failed"], "failed"))

\* The loop head of relay_stdin after an iteration
InLoop(r) ==
    IF r.peer_gone \/ r.proc # "running"
    THEN EndFirst([r EXCEPT !.in_pc = "ended"], "ended")
    ELSE [r EXCEPT !.in_pc = "read"]

\* relay_stdin wakes from reader.read(3): the empty text at EOF, or a text
\* that is written to proc.stdin, then the drain
InRead ==
    /\ rl.in_pc = "read"
    /\ IF rl.peer_gone
       THEN RelayStep(InLoop(rl))
       ELSE /\ rl.inputs < MaxInputs
            /\ \E inp \in RelayInputs :
                  RelayStep([rl EXCEPT !.inputs = @ + 1, !.in_pc = "drain"])

\* relay_stdin wakes from proc.stdin.drain()
InDrained ==
    /\ rl.in_pc = "drain"
    /\ \E ok \in RelayDrainOutcomes(rl.proc # "running") :
          IF ok THEN RelayStep(InLoop(rl))
          ELSE RelayStep(EndFirst([rl EXCEPT !.in_pc = "failed"], "failed"))

\* task.cancel() on a task: one that has not ended is cancelled
Cancel(pc) == IF pc \in Stopped THEN pc ELSE "cancelled"

\* shell() wakes from the gather with the first task's end. A CancelledError
\* is caught: both tasks are cancelled, the child is killed if it has no
\* return code, the farewell and the cursor escape are written, and the drain
\* awaited. Any other exception leaves shell() at once.
GatherDone ==
    /\ rl.pc = "gather"
    /\ rl.first # "none"
    /\ IF rl.first = "ended"
       THEN RelayStep([rl EXCEPT !.pc = "closing",
                                 !.out_pc = Cancel(@),
                                 !.in_pc = Cancel(@),
                                 !.proc = IF @ = "running" THEN "killed" ELSE @,
                                 !.log = <<THANKS, SHOWCUR>>])
       ELSE RelayStep([rl EXCEPT !.pc = "failed"])

\* shell() wakes from its last drain: writer.close(), reader.close(), return
ClosingDrained ==
    /\ rl.pc = "closing"
    /\ \E ok \in RelayDrainOutcomes(rl.peer_gone) :
          IF ok
          THEN RelayStep([rl EXCEPT !.pc = "returned", !.closed = TRUE,
                                    !.log = @ \o <<DRAIN, CLOSE>>])
          ELSE RelayStep([rl EXCEPT !.pc = "failed"])

RelayNext ==
    \/ RHandshake
    \/ ChildEmit
    \/ ChildExit
    \/ RPeerClose
    \/ OutRead
    \/ OutDrained
    \/ InRead
    \/ InDrained
    \/ GatherDone
    \/ ClosingDrained

RelaySpec == RelayInit /\ [][RelayNext]_vars

\* The session is over: shell() has returned or has ended with an exception,
\* after the child was spawned
RelayOver == rl.pc \in {"returned", "failed"} /\ rl.out_pc # "off"

\* C8: Relay shutdown. When a pump has terminated and the session is over,
\* the other pump has been stopped too and the child is dead.
C8_RelayShutdown ==
    RelayOver => (/\ rl.out_pc \in Stopped
                  /\ rl.in_pc \in Stopped
                  /\ rl.proc # "running")

\* C9: on every path by which the session ends after the child was spawned,
\* the child is no longer running when shell() is left, and the farewell,
\* the cursor escape, the drain and the close have been executed.
C9_ChildDeadAndFarewell ==
    RelayOver => (/\ rl.proc # "running"
                  /\ rl.log = <<THANKS, SHOWCUR, DRAIN, CLOSE>>)

RECURSIVE Flatten(_, _)
Flatten(texts, i) ==
    IF i > Len(texts) THEN <<>> ELSE texts[i] \o Flatten(texts, i + 1)

\* The payloads of the first n chunks of the child's stream, each without
\* its sentinel
RECURSIVE PayloadsSent(_, _)
PayloadsSent(data, n) ==
    IF n = 0 \/ ~readuntil(data).found THEN <<>>
    ELSE LET got == readuntil(data)
         IN  <<SubSeq(got.chunk, 1, Len(got.chunk) - Len(SENTINEL))>>
                 \o PayloadsSent(got.rest, n - 1)

\* C10 as stated: the transport receives exactly the payloads, sentinel
\* stripped, once each and in order.
C10_SentinelStripped ==
    rl.wrote = PayloadsSent(rl.stream, Len(rl.wrote))

\* C10 amended: what relay_stdout has written is, in order and once each, the
\* chunks it has read from the child's output, each with its sentinel kept:
\* every text ends with the sentinel and holds no other, and together they
\* are the part of the child's stream read so far, or that part less a last
\* chunk that did not decode.
C10_ChunksForwardedWhole ==
    LET all  == Flatten(rl.wrote, 1)
        read == Len(rl.stream) - Len(rl.stdout)
    IN  /\ \A i \in 1 .. Len(rl.wrote) : FindSep(rl.wrote[i], 1) = Len(rl.wrote[i])
        /\ Len(all) <= read
        /\ all = SubSeq(rl.stream, 1, Len(all))
        /\ (Len(all) < read) => rl.out_pc = "failed"

\* Two chunks have been forwarded, hello first
C10_Witness ==
    /\ Len(rl.wrote) = 2
    /\ rl.wrote[1] = <<104, 101, 108, 108, 111>> \o SENTINEL

----------------------------------------------------------------------------
(* DiffSpec: frames painted cell by cell, diffed by draw_buf_jit, and the   *)
(* output interpreted by the terminal.                                      *)

DW == 2             \* grid width
DH == 2             \* grid height
MaxPaints == 2      \* paint calls per frame
MaxRenders == 3     \* draw_buf_jit calls

DiffGlyphs == {SNOW_CHAR, 111}
DiffColors == {<<255, 255, 255>>, <<246, 170, 183>>}

DiffInit ==
    /\ width = DW /\ height = DH
    /\ x = 0 /\ y = 0 /\ snow = <<>>
    /\ buf = init_buffers(DW, DH)
    /\ last_buf = init_buffers(DW, DH)
    /\ term = TermInit(DW, DH)
    /\ out = <<>>
    /\ renders = 0 /\ paints = 0 /\ pre_paints = 0
    /\ pre_synced = TRUE
    /\ frame = init_buffers(DW, DH)
    /\ CtlOff /\ RelayOff /\ SnowOff

\* One paint call into the current buffer
DPaint ==
    /\ renders < MaxRenders
    /\ paints < MaxPaints
    /\ \E c \in Cells(width, height), g \in DiffGlyphs, col \in DiffColors :
          buf' = PaintCell(buf, c[1], c[2], col, g)
    /\ paints' = paints + 1
    /\ UNCHANGED <<width, height, x, y, snow, last_buf>>
    /\ UNCHANGED <<term, out, renders, pre_paints, pre_synced, frame>>
    /\ UNCHANGED <<ctl_vars, rl, snow_call>>

\* draw_buf(): draw_buf_jit, whose output goes to the terminal
DRender ==
    /\ renders < MaxRenders
    /\ out' = draw_buf_jit(width, height, last_buf, buf)
    /\ term' = TermApply(term, out', 1, Len(out'))
    /\ last_buf' = buf
    /\ buf' = init_buffers(width, height)
    /\ frame' = buf
    /\ pre_synced' = Shows(term, last_buf)
    /\ pre_paints' = paints
    /\ paints' = 0
    /\ renders' = renders + 1
    /\ UNCHANGED <<width, height, x, y, snow>>
    /\ UNCHANGED <<ctl_vars, rl, snow_call>>

DiffNext == DPaint \/ DRender

DiffSpec == DiffInit /\ [][DiffNext]_vars

\* C2: FrameBuffer diff round-trip. Whenever the previous buffer was what the
\* terminal displayed (blank at the start, the preceding frame afterwards),
\* applying draw_buf_jit's output to the terminal yields a display equal to
\* the painted frame in every cell.
C2_DiffRoundTrip ==
    (renders >= 1 /\ pre_synced) => Shows(term, frame)

\* C3: FrameBuffer diff is idempotent. A draw_buf_jit call that follows another
\* with no paint call in between produces an empty output.
C3_DiffIdempotent ==
    (renders >= 2 /\ pre_paints = 0) => out = <<>>

\* The step is a draw_buf_jit call: buf and last_buf are what it is given,
\* out' what it returns
Rendered == renders' = renders + 1

\* draw_buf_jit's output addresses cell c
Addresses(o, c) == \E i \in 1 .. Len(o) : o[i] = CUP(c[2] + 1, c[1] + 1)

\* C18: unchanged cells emit nothing. A draw_buf_jit call emits nothing for a
\* cell whose glyph and colour are the same in both buffers, a blank cell
\* included, and its output is empty when no cell differs.
C18_UnchangedCellsSilent ==
    [][Rendered
        => (/\ \A c \in Cells(width, height) :
                  buf[c] = last_buf[c] => ~Addresses(out', c)
            /\ buf = last_buf => out' = <<>>)]_vars

\* C19: recolor implies reprint. For a cell with the same visible glyph in
\* both buffers and another colour, a draw_buf_jit call addresses the cell and
\* the terminal then shows its glyph in the new colour.
C19_RecolorReprints ==
    [][Rendered
        => \A c \in Cells(width, height) :
              (/\ CellChar(buf[c]) = CellChar(last_buf[c])
               /\ CellChar(buf[c]) # 0
               /\ CellColor(buf[c]) # CellColor(last_buf[c]))
                  => (/\ Addresses(out', c)
                      /\ term'.cells[c] = [color |-> CellColor(buf[c]),
                                           char  |-> CellChar(buf[c])])]_vars

----------------------------------------------------------------------------
(* SnowSpec: update_snow applied, call after call, to the particles that    *)
(* create_snow can make                                                     *)

MaxAdvances == 3    \* update_snow calls

\* The grids drawn here, <<width, height>>: a square one and a one-row one
SnowSizes == {<<3, 3>>, <<3, 1>>}

\* The dt values drawn here, in sixteenths of a second: 0, 1/16 s and 1/2 s
SnowDts == {0, 1, 8}

\* Every position create_snow can draw: randint(0, width), randint(0, height)
SnowSpawn(w, h) ==
    {[x |-> px * Q, y |-> py * Q, xv |-> v[1], yv |-> v[2], color |-> col] :
        px \in 0 .. w, py \in 0 .. h, v \in Velocities, col \in SnowColors}

SnowInit ==
    /\ \E sz \in SnowSizes :
          /\ width = sz[1] /\ height = sz[2]
          /\ snow \in {ps \in [1 .. SnowCount -> SnowSpawn(sz[1], sz[2])] :
                          IsSortedByY(ps)}
          /\ buf = init_buffers(sz[1], sz[2])
    /\ x = 0 /\ y = 0 /\ last_buf = <<>>
    /\ snow_call = [dt |-> 0, ok |-> TRUE, n |-> 0]
    /\ CtlOff /\ DiffOff /\ RelayOff

\* update_snow(dt), painting into the buffer that draw_buf has cleared since
\* the call before; an IndexError ends the calls
Advance ==
    /\ snow_call.ok
    /\ snow_call.n < MaxAdvances
    /\ \E dt \in SnowDts : \E nvs \in Resets(snow, height, dt) :
          LET r == update_snow(snow, init_buffers(width, height),
                               width, height, dt, nvs)
          IN  /\ snow' = r.snow
              /\ buf' = r.b
              /\ snow_call' = [dt |-> dt, ok |-> r.ok, n |-> snow_call.n + 1]
    /\ UNCHANGED <<width, height, x, y, last_buf, ctl_vars, diff_vars, rl>>

SnowNext == Advance

SnowSpec == SnowInit /\ [][SnowNext]_vars

\* The step is an update_snow call that ran to its end
Advanced == snow_call'.n = snow_call.n + 1 /\ snow_call'.ok

\* C13 as stated: after update_snow(dt) with dt = 0, the position of every
\* particle, a freshly spawned one included, is what it was.
C13_ZeroDtKeepsPosition ==
    [][(Advanced /\ snow_call'.dt = 0)
        => \A i \in 1 .. Len(snow) :
              snow'[i].x = snow[i].x /\ snow'[i].y = snow[i].y]_vars

\* C13 amended: after update_snow(dt) with dt = 0, the position of every
\* particle with 1 <= x <= width - 1 and y < height - 1 is what it was.
C13_ZeroDtKeepsInnerPosition ==
    [][(Advanced /\ snow_call'.dt = 0)
        => \A i \in 1 .. Len(snow) :
              (/\ 1 * Q <= snow[i].x /\ snow[i].x <= (width - 1) * Q
               /\ snow[i].y < (height - 1) * Q)
                  => snow'[i].x = snow[i].x /\ snow'[i].y = snow[i].y]_vars

\* A call with dt = 0 has followed another call, which left every particle
\* with 1 <= x <= width - 1 and y < height - 1
C13_Witness ==
    /\ snow_call.n >= 2 /\ snow_call.ok /\ snow_call.dt = 0
    /\ height >= 3
    /\ \A i \in 1 .. Len(snow) :
          /\ 1 * Q <= snow[i].x /\ snow[i].x <= (width - 1) * Q
          /\ snow[i].y < (height - 1) * Q

\* C14: particle looping. A particle whose y has reached or passed the number
\* of rows is, by the next update_snow call, back at the top with a velocity
\* from rand_velocity's ranges; a particle whose y after the move is still
\* less than the number of rows is not reset (its y is the moved one).
C14_ParticleLooping ==
    [][Advanced
        => \A i \in 1 .. Len(snow) :
              LET y1 == snow[i].y + Displacement(snow[i].yv, snow_call'.dt)
              IN  /\ snow[i].y >= height * Q
                        => (/\ snow'[i].y <= 1 * Q
                            /\ <<snow'[i].xv, snow'[i].yv>> \in Velocities)
                  /\ y1 < height * Q => snow'[i].y = y1]_vars

\* C20: particle painting never indexes outside the buffer. After any
\* update_snow calls, no call has raised and every particle's rounded
\* position is a cell of the grid.
C20_SnowPaintInBounds ==
    snow_call.n >= 1
        => (/\ snow_call.ok
            /\ \A i \in 1 .. Len(snow) :
                  <<Round(snow[i].x), Round(snow[i].y)>> \in Cells(width, height))

====
